---- MODULE Spec2Model ----
(***************************************************************************)
(* The job cache of the AccuLynx client (src/src/acculynx/cache.py) and    *)
(* the facade operations that drive it (src/src/acculynx/client.py).       *)
(*                                                                         *)
(* The program is an asyncio program: one event loop runs coroutines that  *)
(* give up control only at an await.  An action of this model is the code  *)
(* a coroutine runs between two suspension points.  The acquisition of     *)
(* the asyncio.Lock ("async with self._lock") is an await and is a step of *)
(* its own; the body of the block in refresh (cache.py:81-83) has no await *)
(* and is one step together with the release.                              *)
(*                                                                         *)
(* The code's page size, batch size and semaphore value are all 25.  The   *)
(* model keeps the three as separate definitions and scales them down so   *)
(* that passes of several batches, and batches whose pages all fail, are   *)
(* reached.                                                                *)
(***************************************************************************)
EXTENDS Integers, Sequences, FiniteSets, TLC

\* ------------------------------------------------------------------ bounds
\* cache.py:54,62,63 page_size=25 and the stride start_index += 25 (scaled)
PageSize == 2
\* cache.py:61 range(25), the number of page fetches of one batch (scaled)
BatchSize == 2
\* cache.py:20 Semaphore(25) (scaled with the batch size)
RateLimit == 2
\* number of background tasks start_refresh_task may create in a run: of the
\* specification of the whole engine, and of the one of the task lifecycle
MaxLoops == 1
MaxStarts == 2
\* cache.py:8,17 refresh_interval, in units of time (scaled)
RefreshInterval == 2
\* values datetime.now() may return
MaxTime == 2
\* the failed page fetches of a pass are counted up to this number
MaxCounted == 2

\* ------------------------------------------------------------- job records
\* Optional[str] fields are sequences of characters; None is a sequence no
\* string is equal to.
NoneStr == <<"<None>">>

Job(i, num, name) == [id |-> i, job_number |-> num, job_name |-> name]

JA1 == Job("a", <<"N", "1">>, <<"R", "o", "o", "f">>)
JA2 == Job("a", <<"N", "2">>, <<"R", "o", "o", "f">>)
JB  == Job("b", <<"n", "2">>, NoneStr)
JC  == Job("c", NoneStr, <<"r", "O">>)
JD  == Job("d", <<>>, <<>>)
JE  == Job("e", <<"N", "1", "0">>, <<"S", "h", "e", "d">>)
JF  == Job("f", <<"7">>, <<"r", "o", "O", "F">>)
JG  == Job("g", <<"n", "7">>, NoneStr)

\* The collections the list-jobs endpoint may hold: of at most one page
\* (the empty one, one whose two records share an id), and of several pages.
SmallRemotes == { <<>>, <<JC, JA1>> }
LargeRemotes == { <<JA1, JB, JC>>, <<JB, JD, JC, JA1, JA2>> }
\* Collections that stay as they are while they are read: the empty one,
\* one of a full page and a part of the next, one with an id twice, and one
\* that reaches beyond the offsets of the first batch.
StableRemotes == { <<>>, <<JA1, JB, JC>>, <<JB, JD, JC, JA1, JA2>>,
                   <<JB, JD, JC, JA1, JE, JF, JG>> }
Remotes == SmallRemotes \cup LargeRemotes \cup StableRemotes

Min(a, b) == IF a < b THEN a ELSE b

\* GET /jobs?pageSize=..&pageStartIndex=..: the page of the collection
Page(rem, offset) ==
    IF offset >= Len(rem) THEN <<>>
    ELSE SubSeq(rem, offset + 1, Min(offset + PageSize, Len(rem)))

\* ------------------------------------------------------------- exceptions
\* The class hierarchy of exceptions.py, with the builtin roots.
Parent(c) ==
    CASE c = "AuthenticationError" -> "AccuLynxAPIError"
      [] c = "NotFoundError"       -> "AccuLynxAPIError"
      [] c = "ValidationError"     -> "AccuLynxAPIError"
      [] c = "RateLimitError"      -> "AccuLynxAPIError"
      [] c = "AccuLynxAPIError"    -> "Exception"
      [] c = "Exception"           -> "BaseException"
      [] c = "CancelledError"      -> "BaseException"
      [] OTHER                     -> "BaseException"

RECURSIVE IsSubclass(_, _)
IsSubclass(c, base) ==
    IF c = base THEN TRUE
    ELSE IF c = "BaseException" THEN FALSE
    ELSE IsSubclass(Parent(c), base)

\* The errors a page fetch raises (client.py _handle_error).
FetchErrors ==
    { "AuthenticationError", "NotFoundError", "ValidationError",
      "RateLimitError", "AccuLynxAPIError" }

\* ------------------------------------------------------------------ dicts
\* A Python dict is a sequence of [key, val] entries in insertion order
\* with distinct keys.
KeyIndex(d, k) ==
    IF \E i \in 1..Len(d) : d[i].key = k
    THEN CHOOSE i \in 1..Len(d) : d[i].key = k
    ELSE 0

DictSet(d, k, v) ==
    IF KeyIndex(d, k) = 0
    THEN Append(d, [key |-> k, val |-> v])
    ELSE [d EXCEPT ![KeyIndex(d, k)] = [key |-> k, val |-> v]]

\* dict.get(k): <<v>> when present, <<>> for None
DictGet(d, k) ==
    IF KeyIndex(d, k) = 0 THEN <<>> ELSE <<d[KeyIndex(d, k)].val>>

DictKeys(d) == { d[i].key : i \in 1..Len(d) }
DictValues(d) == [i \in 1..Len(d) |-> d[i].val]

\* truthiness of an Optional[str]
Truthy(s) == s # NoneStr /\ s # <<>>

RECURSIVE ByIdFrom(_, _)
ByIdFrom(d, js) ==
    IF js = <<>> THEN d
    ELSE ByIdFrom(DictSet(d, Head(js).id, Head(js)), Tail(js))

\* {job.id: job for job in jobs}
ById(js) == ByIdFrom(<<>>, js)

RECURSIVE ByNumberFrom(_, _)
ByNumberFrom(d, js) ==
    IF js = <<>> THEN d
    ELSE IF Truthy(Head(js).job_number)
    THEN ByNumberFrom(DictSet(d, Head(js).job_number, Head(js)), Tail(js))
    ELSE ByNumberFrom(d, Tail(js))

\* {job.job_number: job for job in jobs if job.job_number}
ByNumber(js) == ByNumberFrom(<<>>, js)

\* ------------------------------------------------------------------ state
\* Refresher 0 is the application coroutine (the caller of the facade and
\* of the cache's public operations); 1..MaxLoops are the background tasks
\* that start_refresh_task creates, in the order of their creation.
Loops == 1..MaxStarts
Refreshers == 0..MaxStarts
\* datetime.now() values; 0 stands for None
Times == 1..MaxTime

VARIABLES
    _jobs,            \* JobCache._jobs
    _jobs_by_number,  \* JobCache._jobs_by_number
    _last_refresh,    \* JobCache._last_refresh (0 is None)
    _refresh_task,    \* JobCache._refresh_task (a loop, 0 is None)
    _lock,            \* JobCache._lock.locked()
    remote,           \* the collection behind GET /jobs
    pc,               \* position of each coroutine
    jobs,             \* refresh: the local list jobs
    start_index,      \* refresh: the local start_index
    pending,          \* page fetches awaited, by offset
    results,          \* results of the finished tasks of the batch, by offset
    cancelling,       \* tasks with a cancel() not yet delivered
    app_op,           \* the operation the application is running
    awaited,          \* the task stop_refresh_task awaits (0: none)
    stop_result,      \* how stop_refresh_task ended, if it is the last call
    timer,            \* what is left of the sleep of each task
    requested,        \* the offsets of the page fetches of the pass, as issued
    fetched,          \* the records of the successful page fetches of the pass
    failures,         \* the failed page fetches of the pass, counted
    outcome,          \* how the last refresh of each refresher ended
    published,        \* the list jobs of the last publish
    rd_pc,            \* position of the reader coroutine
    query,            \* search: the argument as passed, and the local query
    ret               \* what the reader's call returned

cachevars == <<_jobs, _jobs_by_number, _last_refresh>>
passvars == <<pc, jobs, start_index, pending, results, timer, requested, fetched,
              failures, outcome>>
appvars == <<app_op, awaited, stop_result>>
rdvars == <<rd_pc, query, ret>>
vars == <<_jobs, _jobs_by_number, _last_refresh, _refresh_task, _lock, remote,
          pc, jobs, start_index, pending, results, cancelling, app_op, awaited,
          stop_result, timer, requested, fetched, failures, outcome, published,
          rd_pc, query, ret>>

NoResults == [o \in {} |-> 0]
NoOutcome == [how |-> "none", failures |-> 0]
NoRet == [op |-> "none", val |-> <<>>]
NoQuery == [arg |-> NoneStr, local |-> NoneStr]

\* JobCache.__init__ and AccuLynxAPI.__init__, for a remote collection of
\* rems and a run that creates at most n background tasks
InitWith(rems, n) ==
    /\ _jobs = <<>>
    /\ _jobs_by_number = <<>>
    /\ _last_refresh = 0
    /\ _refresh_task = 0
    /\ _lock = FALSE
    /\ remote \in rems
    /\ pc = [r \in Refreshers |-> IF r = 0 THEN "idle"
                                ELSE IF r <= n THEN "unborn" ELSE "unused"]
    /\ jobs = [r \in Refreshers |-> <<>>]
    /\ start_index = [r \in Refreshers |-> 0]
    /\ pending = [r \in Refreshers |-> {}]
    /\ results = [r \in Refreshers |-> NoResults]
    /\ cancelling = {}
    /\ app_op = "none"
    /\ awaited = 0
    /\ stop_result = "none"
    /\ timer = [l \in Loops |-> 0]
    /\ requested = [r \in Refreshers |-> <<>>]
    /\ fetched = [r \in Refreshers |-> {}]
    /\ failures = [r \in Refreshers |-> 0]
    /\ outcome = [r \in Refreshers |-> NoOutcome]
    /\ published = <<>>
    /\ rd_pc = "idle"
    /\ query = NoQuery
    /\ ret = NoRet

Init == InitWith(SmallRemotes, MaxLoops)

\* ---------------------------------------------------------------- refresh
\* What a page fetch hands to refresh: a list, or an exception.  Of the
\* exception of a batch task refresh reads only that it is no list
\* (cache.py:70), so a result does not keep its class.
OkResponse(list) == [ok |-> TRUE, list |-> list]
Failed == [ok |-> FALSE, list |-> <<>>]

\* a narrower except clause
RefreshCatchesRateLimitOnly(e) == IsSubclass(e, "RateLimitError")

\* except Exception as e (cache.py:85)
RefreshCatches(e) == IsSubclass(e, "Exception")

\* start_index is not advanced between the tasks of a batch
BatchOffsetsRepeated(first) == [i \in 1..BatchSize |-> first]

\* The offsets of the batch built by the for loop of cache.py:61-63, in the
\* order of the tasks.
BatchOffsets(first) == [i \in 1..BatchSize |-> first + (i - 1) * PageSize]
BatchSet(first) == {BatchOffsets(first)[i] : i \in 1..BatchSize}
AfterBatch(first) == first + BatchSize * PageSize

\* a result that is no list, an exception, also counts as new jobs
IsNewJobsOrFailed(resp) == ~resp.ok \/ resp.list # <<>>

\* isinstance(job_list, list) and job_list (cache.py:70)
IsNewJobs(resp) == resp.ok /\ resp.list # <<>>

RECURSIVE ExtendAll(_, _, _)
\* the loop of cache.py:69-72 over job_lists, from task i on
ExtendAll(js, job_lists, i) ==
    IF i > Len(job_lists) THEN js
    ELSE ExtendAll(IF IsNewJobs(job_lists[i]) THEN js \o job_lists[i].list ELSE js,
                   job_lists, i + 1)

Records(list) == {list[i] : i \in 1..Len(list)}
CountUp(n) == Min(n + 1, MaxCounted)

\* the sleep is one unit of time short of the interval
SleepTimeShort(l) == RefreshInterval - 1

\* await asyncio.sleep(self.refresh_interval) (cache.py:40): the time the
\* task sleeps
SleepTime(l) == RefreshInterval

\* Where a coroutine goes when its refresh call is over: the application
\* goes on with its operation (client.py:52,64), a loop task sleeps
\* (cache.py:40) or ends with the exception.
AfterRefresh(r, raised) ==
    IF r = 0 THEN (IF ~raised /\ app_op = "initialize_cache" THEN "to_start" ELSE "idle")
    ELSE (IF raised THEN "failed" ELSE "sleep")

\* the entry of refresh up to the first await (cache.py:51-54)
EnterRefresh(r) ==
    /\ pc' = [pc EXCEPT ![r] = "first"]
    /\ jobs' = [jobs EXCEPT ![r] = <<>>]
    /\ pending' = [pending EXCEPT ![r] = {0}]
    /\ outcome' = [outcome EXCEPT ![r] = NoOutcome]
    /\ requested' = [requested EXCEPT ![r] = <<0>>]
    /\ UNCHANGED <<start_index, results, timer, fetched, failures>>

\* the end of a refresh call: its locals are gone
LeaveRefresh(r, how) ==
    /\ pc' = [pc EXCEPT ![r] = AfterRefresh(r, how = "raised")]
    /\ jobs' = [jobs EXCEPT ![r] = <<>>]
    /\ start_index' = [start_index EXCEPT ![r] = 0]
    /\ pending' = [pending EXCEPT ![r] = {}]
    /\ results' = [results EXCEPT ![r] = NoResults]
    /\ requested' = [requested EXCEPT ![r] = <<>>]
    /\ timer' = IF AfterRefresh(r, how = "raised") = "sleep"
                THEN [timer EXCEPT ![r] = SleepTime(r)] ELSE timer
    /\ fetched' = [fetched EXCEPT ![r] = {}]
    /\ failures' = [failures EXCEPT ![r] = 0]
    /\ outcome' = [outcome EXCEPT ![r] = [how |-> how, failures |-> failures[r]]]
    /\ app_op' = IF r = 0 /\ AfterRefresh(r, how = "raised") = "idle"
                 THEN "none" ELSE app_op

\* The first page fetch returns its list (cache.py:54-65): the list starts
\* jobs and the first batch is created and awaited.
FirstPageOk(r) ==
    /\ pc[r] = "first"
    /\ r \notin cancelling
    /\ LET list == Page(remote, 0)
       IN /\ jobs' = [jobs EXCEPT ![r] = list]
          /\ fetched' = [fetched EXCEPT ![r] = Records(list)]
    /\ pc' = [pc EXCEPT ![r] = "batch"]
    /\ start_index' = [start_index EXCEPT ![r] = AfterBatch(PageSize)]
    /\ pending' = [pending EXCEPT ![r] = BatchSet(PageSize)]
    /\ requested' = [requested EXCEPT ![r] = requested[r] \o BatchOffsets(PageSize)]
    /\ UNCHANGED <<cachevars, _refresh_task, _lock, remote, results, cancelling,
                   appvars, timer, failures, outcome, published, rdvars>>

\* the failure path publishes the empty list it has
FirstPageErrorClears(r, e) ==
    /\ pc[r] = "first"
    /\ r \notin cancelling
    /\ LeaveRefresh(r, IF RefreshCatches(e) THEN "aborted" ELSE "raised")
    /\ _jobs' = ById(jobs[r])
    /\ _jobs_by_number' = ByNumber(jobs[r])
    /\ published' = jobs[r]
    /\ UNCHANGED <<_last_refresh, _refresh_task, _lock, remote, cancelling,
                   awaited, stop_result, rdvars>>

\* the timestamp is set on the way out of refresh, also on a failure
FirstPageErrorStamps(r, e) ==
    /\ pc[r] = "first"
    /\ r \notin cancelling
    /\ LeaveRefresh(r, IF RefreshCatches(e) THEN "aborted" ELSE "raised")
    /\ \E now \in Times : _last_refresh' = now
    /\ UNCHANGED <<_jobs, _jobs_by_number, _refresh_task, _lock, remote,
                   cancelling, awaited, stop_result, published, rdvars>>

\* The first page fetch raises e (cache.py:54, 85-86): the except clause
\* prints it and refresh returns, or e is not caught and leaves refresh.
FirstPageError(r, e) ==
    /\ pc[r] = "first"
    /\ r \notin cancelling
    /\ LeaveRefresh(r, IF RefreshCatches(e) THEN "aborted" ELSE "raised")
    /\ UNCHANGED <<cachevars, _refresh_task, _lock, remote, cancelling, awaited,
                   stop_result, published, rdvars>>

\* One page fetch of the batch ends with resp (cache.py:65-80).  gather
\* keeps the result, an exception too (return_exceptions=True); with the
\* last task of the batch gather returns its results in task order, they
\* are processed, and the next batch is created or the pass goes on to the
\* lock.
PageEnds(r, o, resp) ==
    /\ pc[r] = "batch"
    /\ r \notin cancelling
    /\ o \in pending[r]
    /\ fetched' = [fetched EXCEPT ![r] = fetched[r] \cup Records(resp.list)]
    /\ failures' = [failures EXCEPT ![r] = IF resp.ok THEN failures[r]
                                                     ELSE CountUp(failures[r])]
    /\ LET res == results[r] @@ (o :> resp)
           first == start_index[r] - BatchSize * PageSize
           job_lists == [i \in 1..BatchSize |-> res[BatchOffsets(first)[i]]]
           new_jobs_found == \E i \in 1..BatchSize : IsNewJobs(job_lists[i])
       IN IF pending[r] # {o}
          THEN /\ results' = [results EXCEPT ![r] = res]
               /\ pending' = [pending EXCEPT ![r] = pending[r] \ {o}]
               /\ UNCHANGED <<pc, jobs, start_index, requested>>
          ELSE /\ jobs' = [jobs EXCEPT ![r] = ExtendAll(jobs[r], job_lists, 1)]
               /\ results' = [results EXCEPT ![r] = NoResults]
               /\ IF new_jobs_found
                  THEN /\ pending' = [pending EXCEPT ![r] = BatchSet(start_index[r])]
                       /\ requested' = [requested EXCEPT ![r] =
                                            requested[r] \o BatchOffsets(start_index[r])]
                       /\ start_index' = [start_index EXCEPT ![r] = AfterBatch(start_index[r])]
                       /\ pc' = pc
                  ELSE /\ pc' = [pc EXCEPT ![r] = "wait_lock"]
                       /\ pending' = [pending EXCEPT ![r] = {}]
                       /\ UNCHANGED <<start_index, requested>>
    /\ UNCHANGED <<cachevars, _refresh_task, _lock, remote, cancelling,
                   appvars, timer, outcome, published, rdvars>>

\* gather without return_exceptions: the exception of the page leaves
\* gather and reaches the except clause
PageErrorAborts(r, o) ==
    /\ pc[r] = "batch"
    /\ r \notin cancelling
    /\ o \in pending[r]
    /\ LeaveRefresh(r, "aborted")
    /\ UNCHANGED <<cachevars, _refresh_task, _lock, remote, cancelling, awaited,
                   stop_result, published, rdvars>>

PageOk(r, o) == PageEnds(r, o, OkResponse(Page(remote, o)))
PageError(r, o) == \E e \in FetchErrors : PageEnds(r, o, Failed)

\* the block is entered whether the lock is held or not
AcquireWithoutLock(r) ==
    /\ pc[r] = "wait_lock"
    /\ r \notin cancelling
    /\ _lock' = TRUE
    /\ pc' = [pc EXCEPT ![r] = "locked"]
    /\ UNCHANGED <<cachevars, _refresh_task, remote, jobs, start_index, pending,
                   results, cancelling, appvars, timer, requested, fetched, failures,
                   outcome, published, rdvars>>

\* async with self._lock: the acquisition (cache.py:80)
AcquireLock(r) ==
    /\ pc[r] = "wait_lock"
    /\ r \notin cancelling
    /\ ~_lock
    /\ _lock' = TRUE
    /\ pc' = [pc EXCEPT ![r] = "locked"]
    /\ UNCHANGED <<cachevars, _refresh_task, remote, jobs, start_index, pending,
                   results, cancelling, appvars, timer, requested, fetched, failures,
                   outcome, published, rdvars>>

\* the second mapping is not replaced in the step that replaces the first
PublishInTwoSteps(r) ==
    /\ pc[r] = "locked"
    /\ _jobs' = ById(jobs[r])
    /\ _jobs_by_number' = _jobs_by_number
    /\ \E now \in Times : _last_refresh' = now
    /\ _lock' = FALSE
    /\ published' = jobs[r]
    /\ LeaveRefresh(r, "published")
    /\ UNCHANGED <<_refresh_task, remote, cancelling, awaited, stop_result, rdvars>>

\* the list is merged into the mappings that are there
PublishMerges(r) ==
    /\ pc[r] = "locked"
    /\ _jobs' = ByIdFrom(_jobs, jobs[r])
    /\ _jobs_by_number' = ByNumberFrom(_jobs_by_number, jobs[r])
    /\ \E now \in Times : _last_refresh' = now
    /\ _lock' = FALSE
    /\ published' = jobs[r]
    /\ LeaveRefresh(r, "published")
    /\ UNCHANGED <<_refresh_task, remote, cancelling, awaited, stop_result, rdvars>>

\* the body of the block takes the lock again, which the block holds
PublishTakesLockAgain(r) ==
    /\ pc[r] = "locked"
    /\ ~_lock
    /\ _jobs' = ById(jobs[r])
    /\ _jobs_by_number' = ByNumber(jobs[r])
    /\ \E now \in Times : _last_refresh' = now
    /\ _lock' = FALSE
    /\ published' = jobs[r]
    /\ LeaveRefresh(r, "published")
    /\ UNCHANGED <<_refresh_task, remote, cancelling, awaited, stop_result, rdvars>>

\* The body of the async with block and the release (cache.py:81-84); no
\* await lies between the three assignments.
Publish(r) ==
    /\ pc[r] = "locked"
    /\ _jobs' = ById(jobs[r])
    /\ _jobs_by_number' = ByNumber(jobs[r])
    /\ \E now \in Times : _last_refresh' = now
    /\ _lock' = FALSE
    /\ published' = jobs[r]
    /\ LeaveRefresh(r, "published")
    /\ UNCHANGED <<_refresh_task, remote, cancelling, awaited, stop_result, rdvars>>

\* The remote collection changes.
RemoteChange(rems) ==
    /\ \E rem \in rems \ {remote} : remote' = rem
    /\ UNCHANGED <<cachevars, _refresh_task, _lock, passvars, cancelling,
                   appvars, published, rdvars>>

\* ------------------------------------------------------- application calls
\* await self.job_cache.refresh(self): a direct call, or the first line of
\* __aenter__ and of initialize_cache (client.py:51,63)
AppRefresh(op) ==
    /\ pc[0] = "idle"
    /\ app_op' = op
    /\ stop_result' = "none"
    /\ EnterRefresh(0)
    /\ UNCHANGED <<cachevars, _refresh_task, _lock, remote, cancelling, awaited,
                   published, rdvars>>

\* await self.job_cache.start_refresh_task(self) (cache.py:22-24): a direct
\* call, or the second line of __aenter__ and of initialize_cache
\* (client.py:52,64).  create_task makes a new task and the field is
\* overwritten.
NewTask == CHOOSE l \in Loops : pc[l] = "unborn" /\ \A k \in Loops : pc[k] = "unborn" => l <= k

StartRefreshTask ==
    /\ pc[0] \in {"idle", "to_start"}
    /\ \E l \in Loops : pc[l] = "unborn"
    /\ pc' = [pc EXCEPT ![NewTask] = "created", ![0] = "idle"]
    /\ _refresh_task' = NewTask
    /\ app_op' = "none"
    /\ stop_result' = "none"
    /\ UNCHANGED <<cachevars, _lock, remote, jobs, start_index, pending, results,
                   cancelling, awaited, timer, requested, fetched, failures, outcome,
                   published,
                   rdvars>>

Finished(l) == pc[l] \in {"cancelled", "failed"}

\* Where the application goes when stop_refresh_task is over: __aexit__
\* goes on to close (client.py:58), which stops again (client.py:69).
AfterStop(op, raised) == IF ~raised /\ op = "aexit" THEN "to_close" ELSE "idle"

\* stop that cancels the task and does not await it
StopWithoutWait(op) ==
    /\ \/ pc[0] = "idle" /\ op \in {"stop", "aexit"}
       \/ pc[0] = "to_close" /\ op = "close"
    /\ pc' = [pc EXCEPT ![0] = AfterStop(op, FALSE)]
    /\ app_op' = IF AfterStop(op, FALSE) = "idle" THEN "none" ELSE op
    /\ stop_result' = IF _refresh_task = 0 THEN "nothing_to_stop" ELSE "returned"
    /\ cancelling' = IF _refresh_task = 0 \/ Finished(_refresh_task) THEN cancelling
                     ELSE cancelling \cup {_refresh_task}
    /\ _refresh_task' = 0
    /\ UNCHANGED <<cachevars, _lock, remote, jobs, start_index, pending, results,
                   awaited, timer, requested, fetched, failures, outcome, published,
                   rdvars>>

\* await self.job_cache.stop_refresh_task() up to its await (cache.py:26-31):
\* a direct call, the first line of __aexit__ (client.py:57) or the call in
\* close (client.py:69).  With no task it returns at once.
StopRefreshTask(op) ==
    /\ \/ pc[0] = "idle" /\ op \in {"stop", "aexit"}
       \/ pc[0] = "to_close" /\ op = "close"
    /\ IF _refresh_task = 0
       THEN /\ pc' = [pc EXCEPT ![0] = AfterStop(op, FALSE)]
            /\ app_op' = IF AfterStop(op, FALSE) = "idle" THEN "none" ELSE op
            /\ stop_result' = "nothing_to_stop"
            /\ UNCHANGED <<cancelling, awaited>>
       ELSE /\ pc' = [pc EXCEPT ![0] = "stop_wait"]
            /\ app_op' = op
            /\ stop_result' = "none"
            /\ cancelling' = IF Finished(_refresh_task) THEN cancelling
                             ELSE cancelling \cup {_refresh_task}
            /\ awaited' = _refresh_task
    /\ UNCHANGED <<cachevars, _refresh_task, _lock, remote, jobs, start_index,
                   pending, results, timer, requested, fetched, failures, outcome,
                   published, rdvars>>

\* the await of the task ends before the task is over
StopReturnsEarly ==
    /\ pc[0] = "stop_wait"
    /\ pc' = [pc EXCEPT ![0] = AfterStop(app_op, FALSE)]
    /\ app_op' = IF AfterStop(app_op, FALSE) = "idle" THEN "none" ELSE app_op
    /\ stop_result' = "returned"
    /\ _refresh_task' = 0
    /\ awaited' = 0
    /\ UNCHANGED <<cachevars, _lock, remote, jobs, start_index, pending, results,
                   cancelling, timer, requested, fetched, failures, outcome,
                   published, rdvars>>

\* The awaited task is over (cache.py:31-34): its CancelledError is caught
\* and the field is cleared; another exception of the task leaves stop.
StopReturns ==
    /\ pc[0] = "stop_wait"
    /\ Finished(awaited)
    /\ LET raised == pc[awaited] = "failed"
       IN /\ pc' = [pc EXCEPT ![0] = AfterStop(app_op, raised)]
          /\ app_op' = IF AfterStop(app_op, raised) = "idle" THEN "none" ELSE app_op
          /\ stop_result' = IF raised THEN "raised" ELSE "returned"
          /\ _refresh_task' = IF raised THEN _refresh_task ELSE 0
    /\ awaited' = 0
    /\ UNCHANGED <<cachevars, _lock, remote, jobs, start_index, pending, results,
                   cancelling, timer, requested, fetched, failures, outcome, published,
                   rdvars>>

\* ------------------------------------------------------ the background loop
\* a task that refreshes once, without the while loop
PeriodicRefreshOnce(l) ==
    /\ pc[l] = "created"
    /\ l \notin cancelling
    /\ EnterRefresh(l)
    /\ UNCHANGED <<cachevars, _refresh_task, _lock, remote, cancelling, appvars,
                   published, rdvars>>

\* _periodic_refresh (cache.py:36-40): the task starts, or its sleep is
\* over, and it calls refresh.
PeriodicRefresh(l) ==
    /\ pc[l] = "created" \/ (pc[l] = "sleep" /\ timer[l] = 0)
    /\ l \notin cancelling
    /\ EnterRefresh(l)
    /\ UNCHANGED <<cachevars, _refresh_task, _lock, remote, cancelling, appvars,
                   published, rdvars>>

\* A unit of time passes: every sleep has one unit less left.
Tick ==
    /\ \E l \in Loops : timer[l] > 0
    /\ timer' = [l \in Loops |-> IF timer[l] > 0 THEN timer[l] - 1 ELSE 0]
    /\ UNCHANGED <<cachevars, _refresh_task, _lock, remote, pc, jobs, start_index,
                   pending, results, cancelling, appvars, requested, fetched,
                   failures, outcome, published, rdvars>>

\* an await inside the block guarded by the lock, with no release on the
\* way out
SuspendedInsideBlock(l) ==
    pc[l] \in {"created", "first", "batch", "wait_lock", "locked", "sleep"}

\* The points where a task is suspended and a cancel() reaches it.
Suspended(l) == pc[l] \in {"created", "first", "batch", "wait_lock", "sleep"}

\* CancelledError is raised in the task at its await; it is no Exception,
\* so the except clause of refresh lets it pass, gather cancels the page
\* fetches, and the task ends cancelled.
Cancelled(l) ==
    /\ l \in cancelling
    /\ Suspended(l)
    /\ ~RefreshCatches("CancelledError")
    /\ cancelling' = cancelling \ {l}
    /\ pc' = [pc EXCEPT ![l] = "cancelled"]
    /\ jobs' = [jobs EXCEPT ![l] = <<>>]
    /\ start_index' = [start_index EXCEPT ![l] = 0]
    /\ pending' = [pending EXCEPT ![l] = {}]
    /\ results' = [results EXCEPT ![l] = NoResults]
    /\ timer' = [timer EXCEPT ![l] = 0]
    /\ requested' = [requested EXCEPT ![l] = <<>>]
    /\ fetched' = [fetched EXCEPT ![l] = {}]
    /\ failures' = [failures EXCEPT ![l] = 0]
    /\ outcome' = [outcome EXCEPT ![l] =
                       [how |-> IF pc[l] \in {"created", "sleep"} THEN "stopped"
                                                                  ELSE "cancelled",
                        failures |-> 0]]
    /\ UNCHANGED <<cachevars, _refresh_task, _lock, remote, appvars, published,
                   rdvars>>

\* ----------------------------------------------------------------- readers
IdKeys == {"a", "c"}
NumberKeys == { <<"N", "1">>, <<"N", "2">> }

\* the queries of search: the empty one, part of a name in mixed case, part
\* of a number
Queries == { <<>>, <<"r", "O">>, <<"N">> }

\* str.lower() on the letters
UpperCase == <<"A", "B", "C", "D", "E", "F", "G", "H", "I", "J", "K", "L", "M",
               "N", "O", "P", "Q", "R", "S", "T", "U", "V", "W", "X", "Y", "Z">>
LowerCase == <<"a", "b", "c", "d", "e", "f", "g", "h", "i", "j", "k", "l", "m",
               "n", "o", "p", "q", "r", "s", "t", "u", "v", "w", "x", "y", "z">>
LowerChar(c) ==
    IF \E i \in 1..Len(UpperCase) : UpperCase[i] = c
    THEN LowerCase[CHOOSE i \in 1..Len(UpperCase) : UpperCase[i] = c]
    ELSE c
\* the string is compared as it is
LowerKept(s) == s

Lower(s) == [i \in 1..Len(s) |-> LowerChar(s[i])]

\* q in s, for two strings
Contains(q, s) ==
    \E i \in 0..(Len(s) - Len(q)) : SubSeq(s, i + 1, i + Len(q)) = q

\* .lower() is called on whatever the field holds
FieldMatchUnguarded(s, q) ==
    IF s = NoneStr THEN "AttributeError"
    ELSE IF Contains(q, Lower(s)) THEN "yes" ELSE "no"

\* job.f and query in job.f.lower() (cache.py:103,104): a field that is
\* None or empty is not looked into
FieldMatch(s, q) ==
    IF ~Truthy(s) THEN "no"
    ELSE IF Contains(q, Lower(s)) THEN "yes" ELSE "no"

\* the condition of the comprehension (cache.py:103-104); or evaluates its
\* right side only when the left one is false
JobMatch(job, q) ==
    LET number == FieldMatch(job.job_number, q)
    IN IF number # "no" THEN number ELSE FieldMatch(job.job_name, q)

SearchRaises(d, q) ==
    \E i \in 1..Len(d) : JobMatch(d[i].val, q) = "AttributeError"

RECURSIVE SearchFrom(_, _, _)
\* the comprehension over self._jobs.values(), from the i-th value on
SearchFrom(d, q, i) ==
    IF i > Len(d) THEN <<>>
    ELSE (IF JobMatch(d[i].val, q) = "yes" THEN <<d[i].val>> ELSE <<>>)
             \o SearchFrom(d, q, i + 1)
SearchList(d, q) == SearchFrom(d, q, 1)

\* get_by_id (cache.py:88-90): no await, no lock
GetById(k) ==
    /\ rd_pc = "idle"
    /\ ret' = [op |-> "get_by_id", val |-> <<k, DictGet(_jobs, k)>>]
    /\ rd_pc' = "returned"
    /\ UNCHANGED <<cachevars, _refresh_task, _lock, remote, passvars, cancelling,
                   appvars, published, query>>

\* get_by_number is called and reaches async with self._lock (cache.py:94)
CallGetByNumber ==
    /\ rd_pc = "idle"
    /\ rd_pc' = "wait_number"
    /\ UNCHANGED <<cachevars, _refresh_task, _lock, remote, passvars, cancelling,
                   appvars, published, query, ret>>

ReaderAcquire ==
    /\ rd_pc = "wait_number"
    /\ ~_lock
    /\ _lock' = TRUE
    /\ rd_pc' = "locked_number"
    /\ UNCHANGED <<cachevars, _refresh_task, remote, passvars, cancelling,
                   appvars, published, query, ret>>

\* the body of get_by_number and the release (cache.py:95)
GetByNumber(k) ==
    /\ rd_pc = "locked_number"
    /\ ret' = [op |-> "get_by_number", val |-> <<k, DictGet(_jobs_by_number, k)>>]
    /\ _lock' = FALSE
    /\ rd_pc' = "returned"
    /\ UNCHANGED <<cachevars, _refresh_task, remote, passvars, cancelling,
                   appvars, published, query>>

\* search is called (cache.py:97-100): the query is put in lower case and
\* the call reaches async with self._lock
CallSearch(q) ==
    /\ rd_pc = "idle"
    /\ query' = [arg |-> q, local |-> Lower(q)]
    /\ rd_pc' = "wait_search"
    /\ UNCHANGED <<cachevars, _refresh_task, _lock, remote, passvars, cancelling,
                   appvars, published, ret>>

SearchAcquire ==
    /\ rd_pc = "wait_search"
    /\ ~_lock
    /\ _lock' = TRUE
    /\ rd_pc' = "locked_search"
    /\ UNCHANGED <<cachevars, _refresh_task, remote, passvars, cancelling,
                   appvars, published, query, ret>>

\* The body of search and the release (cache.py:101-105): the list of the
\* matching jobs is returned, or the exception of the comprehension leaves
\* the block.
Search ==
    /\ rd_pc = "locked_search"
    /\ IF SearchRaises(_jobs, query.local)
       THEN /\ ret' = [op |-> "search", val |-> <<query.arg>>]
            /\ rd_pc' = "raised"
       ELSE /\ ret' = [op |-> "search",
                       val |-> <<query.arg, SearchList(_jobs, query.local)>>]
            /\ rd_pc' = "returned"
    /\ query' = NoQuery
    /\ _lock' = FALSE
    /\ UNCHANGED <<cachevars, _refresh_task, remote, passvars, cancelling,
                   appvars, published>>

\* the caller has its value and is free for the next call
ReaderResumes ==
    /\ rd_pc \in {"returned", "raised"}
    /\ rd_pc' = "idle"
    /\ ret' = NoRet
    /\ UNCHANGED <<cachevars, _refresh_task, _lock, remote, passvars, cancelling,
                   appvars, published, query>>

Reader ==
    \/ \E k \in IdKeys : GetById(k)
    \/ CallGetByNumber
    \/ ReaderAcquire
    \/ \E k \in NumberKeys : GetByNumber(k)
    \/ \E q \in Queries : CallSearch(q)
    \/ SearchAcquire
    \/ Search
    \/ ReaderResumes

\* ------------------------------------------------------------ specifications
Pass(r) ==
    \/ FirstPageOk(r)
    \/ \E e \in FetchErrors : FirstPageError(r, e)
    \/ \E o \in pending[r] : PageOk(r, o)
    \/ \E o \in pending[r] : PageError(r, o)
    \/ AcquireLock(r)
    \/ Publish(r)

Next ==
    \/ \E r \in Refreshers : Pass(r)
    \/ RemoteChange(SmallRemotes)
    \/ \E op \in {"refresh", "initialize_cache"} : AppRefresh(op)
    \/ StartRefreshTask
    \/ \E op \in {"stop", "aexit", "close"} : StopRefreshTask(op)
    \/ StopReturns
    \/ \E l \in Loops : PeriodicRefresh(l)
    \/ Tick
    \/ \E l \in Loops : Cancelled(l)
    \/ Reader

Spec == Init /\ [][Next]_vars

\* One caller's passes over collections of several pages.
InitPass == InitWith(LargeRemotes, 0)
NextPass ==
    \/ Pass(0)
    \/ RemoteChange(LargeRemotes)
    \/ AppRefresh("refresh")
    \/ Reader

SpecPass == InitPass /\ [][NextPass]_vars

\* The lifecycle of the background tasks, with every task a run may start.
InitStart == InitWith(SmallRemotes, MaxStarts)
NextStart ==
    \/ \E r \in Refreshers : Pass(r)
    \/ \E op \in {"refresh", "initialize_cache"} : AppRefresh(op)
    \/ StartRefreshTask
    \/ \E op \in {"stop", "aexit", "close"} : StopRefreshTask(op)
    \/ StopReturns
    \/ \E l \in Loops : PeriodicRefresh(l)
    \/ Tick
    \/ \E l \in Loops : Cancelled(l)

SpecStart == InitStart /\ [][NextStart]_vars

\* One caller's passes over a collection that does not change.
InitStable == InitWith(StableRemotes, 0)
NextStable ==
    \/ Pass(0)
    \/ AppRefresh("refresh")

SpecStable == InitStable /\ [][NextStable]_vars

\* The same, where no step of a pass is put off for ever: every page fetch
\* returns, with a list or an exception, and the event loop runs the
\* coroutine that is ready.
SpecStableFair == SpecStable /\ WF_vars(Pass(0))

\* ------------------------------------------------------------------ claims
InPass(r) == pc[r] \in {"first", "batch", "wait_lock", "locked"}
Alive(l) == pc[l] \in {"created", "first", "batch", "wait_lock", "locked", "sleep"}
Publishing(r) == pc[r] = "locked" /\ pc'[r] # "locked"

\* The snapshot is the pair of mappings of one list.
Coherent ==
    /\ _jobs = ById(published)
    /\ _jobs_by_number = ByNumber(published)

\* The list of a snapshot is the list of a pass whose fetches are over.
FromCompletedPass ==
    published' # published =>
        \E r \in Refreshers : /\ pc[r] = "locked"
                              /\ pending[r] = {}
                              /\ published' = jobs[r]

\* A lookup returns what the pair of mappings of that list holds.
ReadsSnapshot ==
    (rd_pc # "returned" /\ rd_pc' = "returned") =>
        ret'.val[2] = CASE ret'.op = "get_by_id"
                             -> DictGet(ById(published), ret'.val[1])
                        [] ret'.op = "get_by_number"
                             -> DictGet(ByNumber(published), ret'.val[1])
                        [] OTHER -> ret'.val[2]

\* C1: whatever the interleaving of refresh calls and readers, _jobs and
\* _jobs_by_number are at every moment the two mappings of the list of one
\* pass that completed its fetches, and every get_by_id and get_by_number
\* returns the entry of those mappings.
C1_SnapshotOfOnePass == []Coherent /\ [][FromCompletedPass /\ ReadsSnapshot]_vars

\* a reader has a job in hand while another pass, with another list, is
\* about to publish
C1_Witness ==
    /\ rd_pc = "returned"
    /\ ret.val[2] # <<>>
    /\ \E r \in Refreshers : pc[r] \in {"wait_lock", "locked"} /\ jobs[r] # published

\* C2: the step in which a refresh ends on the failure of its first page
\* fetch leaves _jobs, _jobs_by_number and _last_refresh as they were.
C2_FirstPageFailureKeepsSnapshot ==
    [][\A r \in Refreshers :
          (pc[r] = "first" /\ outcome'[r].how \in {"aborted", "raised"})
              => UNCHANGED <<_jobs, _jobs_by_number, _last_refresh>>]_vars

\* a refresh was aborted on its first page while a snapshot with jobs is
\* published
C2_Witness ==
    /\ _last_refresh # 0
    /\ _jobs # <<>>
    /\ \E r \in Refreshers : outcome[r].how = "aborted"

Ids(recs) == {j.id : j \in recs}
DistinctIds(recs) == \A j, k \in recs : j.id = k.id => j = k

\* The mapping d is the union of the records recs, keyed by id.
KeyedUnion(d, recs) ==
    /\ DictKeys(d) = Ids(recs)
    /\ \A i \in 1..Len(d) : d[i].val \in recs /\ d[i].val.id = d[i].key
    /\ DistinctIds(recs) => Records(DictValues(d)) = recs

C4_NumberIdConsistent ==
    \A i \in 1..Len(_jobs_by_number) :
        DictGet(_jobs, _jobs_by_number[i].val.id) = <<_jobs_by_number[i].val>>

LockHolders ==
    Cardinality({r \in Refreshers : pc[r] = "locked"})
        + (IF rd_pc \in {"locked_number", "locked_search"} THEN 1 ELSE 0)

MutualExclusion == LockHolders <= 1 /\ (_lock <=> LockHolders = 1)

LastPublishWins ==
    /\ \A r \in Refreshers :
          Publishing(r) => /\ _jobs' = ById(jobs[r])
                           /\ _jobs_by_number' = ByNumber(jobs[r])
                           /\ _last_refresh' \in Times
    /\ <<_jobs, _jobs_by_number, _last_refresh>>' # <<_jobs, _jobs_by_number, _last_refresh>>
          => Cardinality({r \in Refreshers : Publishing(r)}) = 1

\* C5: at most one coroutine is inside a block guarded by the lock, the
\* fetch phases of refreshes overlap, and every change of the snapshot is
\* the publish step of one refresh, which sets both mappings from its list.
C5_PublishesExclude == []MutualExclusion /\ [][LastPublishWins]_vars

\* one refresh holds the lock while another, with another list, waits for it
C5_Witness ==
    \E r, q \in Refreshers :
        /\ pc[r] = "locked"
        /\ pc[q] = "wait_lock"
        /\ jobs[r] # jobs[q]

OneStarted == \A l \in Loops : l > 1 => pc[l] \in {"unborn", "unused"}

StopLeavesNothing ==
    /\ stop_result # "raised"
    /\ stop_result \in {"returned", "nothing_to_stop"}
          => /\ _refresh_task = 0
             /\ awaited = 0
             /\ OneStarted => \A l \in Loops : ~Alive(l) /\ l \notin cancelling

SecondStopIsNoop ==
    (/\ _refresh_task = 0
     /\ stop_result' = "nothing_to_stop"
     /\ stop_result # "nothing_to_stop" \/ pc'[0] # pc[0])
        => /\ UNCHANGED <<_jobs, _jobs_by_number, _last_refresh, _refresh_task,
                          _lock, cancelling, awaited, published>>
           /\ \A l \in Loops : pc'[l] = pc[l]
           /\ pc'[0] \in {"idle", "to_close"}

\* C6: when stop_refresh_task has returned, after one start_refresh_task,
\* the task is over, none is left to run and _refresh_task is None; stop
\* never raises; and a stop with nothing to stop changes nothing.
C6_StopEndsTheLoop == []StopLeavesNothing /\ [][SecondStopIsNoop]_vars

\* the task was cancelled by a stop, and the stop after it found nothing
C6_Witness ==
    /\ stop_result = "nothing_to_stop"
    /\ pc[0] = "idle"
    /\ pc[1] = "cancelled"

\* C7: at most one background task is alive.
C7_AtMostOneLoop == Cardinality({l \in Loops : Alive(l)}) <= 1

Outstanding ==
    Cardinality({ro \in Refreshers \X UNION {pending[r] : r \in Refreshers} :
                    ro[2] \in pending[ro[1]]})

\* C8: the page fetches outstanding at one time are at most the value of
\* the semaphore.
C8_OutstandingWithinLimit == Outstanding <= RateLimit

\* C9: no refresh call ends with an exception, and no task ends with one.
C9_RefreshNeverRaises ==
    \A r \in Refreshers : outcome[r].how # "raised" /\ pc[r] # "failed"

\* the application's refresh was aborted on its first page, and a task's
\* refresh published after a page fetch of a batch failed
C9_Witness ==
    /\ outcome[0].how = "aborted"
    /\ \E l \in Loops : outcome[l].how = "published" /\ outcome[l].failures >= 1

LoopCanGoOn ==
    \A l \in Loops :
        (pc[l] = "sleep" /\ l \notin cancelling)
            => ENABLED PeriodicRefresh(l) \/ ENABLED Tick

LoopGoesOn ==
    \A l \in Loops :
        /\ (InPass(l) /\ ~InPass(l)')
              => pc'[l] = "sleep" \/ (pc'[l] = "cancelled" /\ l \in cancelling)
        /\ (pc[l] = "sleep" /\ pc'[l] # "sleep")
              => pc'[l] = "first" \/ (pc'[l] = "cancelled" /\ l \in cancelling)

\* C10: every refresh of a task that is not cancelled, aborted or not, ends
\* in the sleep of the loop, and from the sleep the task can and does only
\* go on to the next refresh.
C10_LoopSurvivesFailures == []LoopCanGoOn /\ [][LoopGoesOn]_vars

\* a task sleeps after a refresh that was aborted on its first page
C10_Witness ==
    \E l \in Loops : /\ pc[l] = "sleep"
                     /\ outcome[l].how = "aborted"
                     /\ l \notin cancelling

Range(seq) == {seq[i] : i \in 1..Len(seq)}
ConsecutiveOffsets(seq) == \A i \in 1..Len(seq) : seq[i] = (i - 1) * PageSize

\* The page fetches of a pass are issued for offset 0 and then for the
\* multiples of the page size in turn, and only issued ones are awaited.
RequestsInOrder ==
    \A r \in Refreshers : /\ ConsecutiveOffsets(requested[r])
                          /\ pending[r] \subseteq Range(requested[r])

\* Any of the awaited page fetches may be the next to complete.
AnyCompletionOrder ==
    \A r \in Refreshers :
        (pc[r] = "batch" /\ r \notin cancelling)
            => \A o \in pending[r] : ENABLED PageOk(r, o)

PublishesWholeCollection ==
    \A r \in Refreshers :
        (Publishing(r) /\ failures[r] = 0 /\ DistinctIds(Records(remote)))
            => /\ DictKeys(_jobs') = Ids(Records(remote))
               /\ Len(_jobs') = Len(remote)

\* C11: over a collection that does not change and has distinct ids, a
\* refresh issues its page fetches for offset 0 and then the consecutive
\* multiples of the page size, each once; its page fetches may complete in
\* any order; and when none of them failed the published _jobs has exactly
\* the ids of the collection as keys, one job for each record.
C11_StablePassPublishesAll ==
    []RequestsInOrder /\ []AnyCompletionOrder /\ [][PublishesWholeCollection]_vars

\* a pass without a failure has published the collection of one full page
\* and one record more
C11_Witness ==
    /\ outcome[0] = [how |-> "published", failures |-> 0]
    /\ Len(remote) = PageSize + 1
    /\ DistinctIds(Records(remote))
    /\ Len(_jobs) = PageSize + 1
    /\ DictKeys(_jobs) = Ids(Records(remote))

\* No refresh has published.
Empty == _last_refresh = 0

\* C12: no call of get_by_id, get_by_number or search ends with an
\* exception; and while no refresh has published, whether none ran or all
\* failed, the mappings are empty, get_by_id and get_by_number return None
\* and search returns the empty list, for every key and every query.
C12_LookupsNeverFail ==
    /\ rd_pc # "raised"
    /\ Empty => _jobs = <<>> /\ _jobs_by_number = <<>>
    /\ (Empty /\ rd_pc = "returned") => ret.val[2] = <<>>

\* the search for the empty string has returned the empty list after a
\* refresh that failed, with nothing published
C12_Witness ==
    /\ Empty
    /\ outcome[0].how = "aborted"
    /\ rd_pc = "returned"
    /\ ret.op = "search"
    /\ ret.val[1] = <<>>
    /\ ret.val[2] = <<>>

\* Two characters are the same letter, whatever their case.
SameLetter(a, b) ==
    \/ a = b
    \/ \E i \in 1..Len(UpperCase) : {a, b} = {UpperCase[i], LowerCase[i]}

\* The string s has q in it, the case of the letters ignored.
ContainsIgnoringCase(q, s) ==
    \E i \in 0..(Len(s) - Len(q)) : \A k \in 1..Len(q) : SameLetter(s[i + k], q[k])

HasNumberOrNameWith(job, q) ==
    \/ job.job_number # NoneStr /\ ContainsIgnoringCase(q, job.job_number)
    \/ job.job_name # NoneStr /\ ContainsIgnoringCase(q, job.job_name)

HasFilledNumberOrNameWith(job, q) ==
    \/ Truthy(job.job_number) /\ ContainsIgnoringCase(q, job.job_number)
    \/ Truthy(job.job_name) /\ ContainsIgnoringCase(q, job.job_name)

SearchReturns == rd_pc = "locked_search" /\ rd_pc' = "returned"
NoRepeat(seq) == \A i, k \in 1..Len(seq) : seq[i] = seq[k] => i = k

\* C13, as claimed: search(q) returns the jobs of _jobs whose job number or
\* job name contains q, the case ignored, each once and none omitted.
C13_SearchReturnsAllContaining ==
    [][SearchReturns =>
          /\ NoRepeat(ret'.val[2])
          /\ Records(ret'.val[2]) =
                 {job \in Records(DictValues(_jobs)) :
                     HasNumberOrNameWith(job, ret'.val[1])}]_vars

\* The values of the mapping d, in its order, that satisfy the condition.
InOrderOf(d, q) ==
    SelectSeq(DictValues(d), LAMBDA job : HasFilledNumberOrNameWith(job, q))

\* C13, amended: search(q) returns the jobs of _jobs that have a non-empty
\* job number or a non-empty job name containing q, the case ignored, each
\* once and none omitted, in the order of _jobs; so two calls with the same
\* query on the same _jobs return the same list.
C13_SearchReturnsFilledContaining ==
    [][SearchReturns =>
          /\ NoRepeat(ret'.val[2])
          /\ ret'.val[2] = InOrderOf(_jobs, ret'.val[1])]_vars

\* the search for "rO" has returned two jobs, one by a name in another case
C13_Witness ==
    /\ rd_pc = "returned"
    /\ ret.op = "search"
    /\ ret.val[1] = <<"r", "O">>
    /\ Len(ret.val[2]) = 2
    /\ \E i \in 1..2 : ret.val[2][i].job_name = <<"R", "o", "o", "f">>

InsideBlock == {r \in Refreshers : pc[r] = "locked"}
ReaderInside == rd_pc \in {"locked_number", "locked_search"}

\* The lock is held only by a coroutine that is inside a guarded block.
HeldOnlyInside == _lock => (InsideBlock # {} \/ ReaderInside)

\* Every way out of a guarded block releases the lock, and a task that is
\* cancelled is not inside one and leaves the lock as it is.
ExitsRelease ==
    /\ \A r \in Refreshers : (pc[r] = "locked" /\ pc'[r] # "locked") => ~_lock'
    /\ (ReaderInside /\ ~ReaderInside') => ~_lock'
    /\ \A l \in Loops :
          (pc[l] # "cancelled" /\ pc'[l] = "cancelled")
              => pc[l] # "locked" /\ _lock' = _lock

\* A lookup that waits for the lock can take it, or the coroutine inside
\* the block can leave it.
WaitingReaderGoesOn ==
    rd_pc \in {"wait_number", "wait_search"}
        => \/ ENABLED ReaderAcquire
           \/ ENABLED SearchAcquire
           \/ \E r \in Refreshers : ENABLED Publish(r)

\* C14: the lock is held only while a coroutine is inside a guarded block
\* of refresh, get_by_number or search; every exit of the block releases
\* it; a task cancelled by stop_refresh_task, at whichever await, does not
\* keep it; so a get_by_number or a search that waits can always go on.
C14_LockNeverLeftHeld ==
    []HeldOnlyInside /\ []WaitingReaderGoesOn /\ [][ExitsRelease]_vars

\* after a stop that cancelled the task in its refresh, a search has
\* taken the lock
C14_Witness ==
    /\ stop_result = "returned"
    /\ pc[1] = "cancelled"
    /\ rd_pc = "locked_search"
    /\ _lock

\* A step that is not a publish step leaves None in place.
NoneUntilPublish ==
    (_last_refresh = 0 /\ ~\E r \in Refreshers : Publishing(r)) => _last_refresh' = 0

\* The timestamp changes only in a publish step, which sets it to a time
\* and sets the two mappings in the same step.
StampedWithMappings ==
    _last_refresh' # _last_refresh
        => \E r \in Refreshers : /\ Publishing(r)
                                 /\ _last_refresh' \in Times
                                 /\ _jobs' = ById(jobs[r])
                                 /\ _jobs_by_number' = ByNumber(jobs[r])

\* Once a refresh has published, the timestamp is a time.
PublishedIsStamped ==
    \A r \in Refreshers : outcome[r].how = "published" => _last_refresh \in Times

\* C15: _last_refresh is None until a refresh publishes, whatever refreshes
\* failed before; it changes only in the publish step, together with
\* _jobs and _jobs_by_number; and after a publish it is a time.
C15_StampOnlyOnPublish ==
    []PublishedIsStamped /\ [][NoneUntilPublish /\ StampedWithMappings]_vars

\* the timestamp is still None after a failed refresh of the application,
\* while the task is about to publish for the first time
C15_Witness ==
    /\ _last_refresh = 0
    /\ outcome[0].how = "aborted"
    /\ \E l \in Loops : pc[l] = "locked"

\* The step in which the last awaited page fetch of a batch ends.
BatchDone(r) ==
    /\ pc[r] = "batch"
    /\ Cardinality(pending[r]) = 1
    /\ pending'[r] # pending[r]
    /\ pc'[r] \in {"batch", "wait_lock"}

\* The step issues a batch: BatchSize page fetches at the next offsets.
IssuesBatch(r) ==
    /\ pc'[r] = "batch"
    /\ Len(requested'[r]) = Len(requested[r]) + BatchSize
    /\ pending'[r] = {requested'[r][i] : i \in (Len(requested[r]) + 1)..Len(requested'[r])}

BatchAfterBatch ==
    \A r \in Refreshers :
        /\ (pc[r] = "first" /\ pc'[r] = "batch") => IssuesBatch(r)
        /\ BatchDone(r) =>
              /\ IssuesBatch(r) <=> Len(jobs'[r]) > Len(jobs[r])
              /\ Records(jobs'[r]) \subseteq fetched'[r]
              /\ ~IssuesBatch(r) => /\ pc'[r] = "wait_lock"
                                    /\ requested'[r] = requested[r]
                                    /\ pending'[r] = {}
        /\ Publishing(r) => /\ pending[r] = {}
                            /\ _jobs' = ById(jobs[r])

\* C16: the first page fetch, when it returns a list, is followed by a
\* batch; a batch is followed by another exactly when one of its page
\* fetches returned a list with records, which the pass adds to its list;
\* a batch whose page fetches all failed or returned nothing adds nothing
\* and ends the fetching, and what the pass has by then is published.
C16_BatchUntilNothingNew == [][BatchAfterBatch]_vars

\* both page fetches of the first batch failed; the pass has published the
\* first page of a collection of seven records
C16_Witness ==
    /\ outcome[0] = [how |-> "published", failures |-> BatchSize]
    /\ Len(remote) > AfterBatch(PageSize)
    /\ published = Page(remote, 0)
    /\ _jobs = ById(published)

\* A refresh that has not returned awaits a page fetch, or is at the lock
\* and can go on.
OnlyFetchesStall ==
    \A r \in Refreshers :
        InPass(r) => \/ pending[r] # {}
                     \/ ENABLED AcquireLock(r)
                     \/ ENABLED Publish(r)

\* C17: when every page fetch returns, every refresh call returns; and a
\* refresh call that has not returned either awaits a page fetch or can
\* take its next step.
C17_RefreshReturns ==
    /\ \A r \in {0} : InPass(r) ~> ~InPass(r)
    /\ []OnlyFetchesStall

\* a refresh has returned after it fetched seven records in three batches
C17_Witness ==
    /\ outcome[0] = [how |-> "published", failures |-> 0]
    /\ Len(published) > AfterBatch(PageSize)
    /\ pc[0] = "idle"

\* Time is left only on the sleep of a task that sleeps.
TimerOnlyInSleep == \A l \in Loops : timer[l] > 0 => pc[l] = "sleep"

LoopOrder ==
    \A l \in Loops :
        /\ (pc[l] = "created" /\ pc'[l] # "created")
              => pc'[l] \in {"first", "cancelled"}
        /\ (pc[l] # "sleep" /\ pc'[l] = "sleep")
              => InPass(l) /\ timer'[l] = RefreshInterval
        /\ (pc[l] = "sleep" /\ pc'[l] = "sleep")
              => timer'[l] \in {timer[l], timer[l] - 1}
        /\ (pc[l] # "first" /\ pc'[l] = "first")
              => /\ pc[l] = "created" \/ (pc[l] = "sleep" /\ timer[l] = 0)
                 /\ requested'[l] = <<0>>
                 /\ pending[l] = {}

\* C18: a task calls refresh first, before it sleeps; a sleep begins only
\* at the end of a refresh of the task, with the whole interval to go,
\* which passes one unit at a time; and the task calls refresh again only
\* from a sleep with nothing left, so never while its refresh is running.
C18_RefreshThenFullInterval == []TimerOnlyInSleep /\ [][LoopOrder]_vars

\* the sleep of a task after its refresh that published is over, and its
\* next refresh can start
C18_Witness ==
    \E l \in Loops : /\ pc[l] = "sleep"
                     /\ timer[l] = 0
                     /\ outcome[l].how = "published"
                     /\ ENABLED PeriodicRefresh(l)

\* When stop_refresh_task has returned, no task is left in a refresh.
NoTaskAfterStop ==
    (stop_result = "returned" /\ OneStarted)
        => \A l \in Loops : ~InPass(l) /\ ~Alive(l)

\* A task that is over takes no step, and with no task alive the snapshot
\* is changed only by the publish step of a refresh the application called.
OnlyCallersPublish ==
    /\ \A l \in Loops :
          pc[l] = "cancelled" => pc'[l] = "cancelled" /\ outcome'[l] = outcome[l]
    /\ (OneStarted /\ (\A l \in Loops : ~Alive(l))
           /\ <<_jobs, _jobs_by_number, _last_refresh>>' # <<_jobs, _jobs_by_number, _last_refresh>>)
          => Publishing(0) /\ app_op \in {"refresh", "initialize_cache"}

\* C19: with one task started, when stop_refresh_task has returned the
\* task is over, whatever refresh it had in flight, and it never takes a
\* step again; from then on _jobs, _jobs_by_number and _last_refresh change
\* only in the publish step of a refresh the application called.
C19_NoPublishAfterStop == []NoTaskAfterStop /\ [][OnlyCallersPublish]_vars

\* stop_refresh_task has returned; the refresh the task had in flight was
\* abandoned and the snapshot of an earlier refresh is in place
C19_Witness ==
    /\ stop_result = "returned"
    /\ pc[1] = "cancelled"
    /\ outcome[1].how = "cancelled"
    /\ _last_refresh # 0
    /\ _jobs = ById(published)

\* After the publish step of a pass the mappings hold records that the
\* pass fetched and no other; a job they held that the pass did not fetch
\* is gone.
ReplacesSnapshot ==
    \A r \in Refreshers :
        Publishing(r) =>
            /\ Records(DictValues(_jobs')) \subseteq fetched[r]
            /\ Records(DictValues(_jobs_by_number')) \subseteq fetched[r]
            /\ \A i \in 1..Len(_jobs) :
                  _jobs[i].val \notin fetched[r]
                      => /\ DictGet(_jobs', _jobs[i].key) # <<_jobs[i].val>>
                         /\ _jobs[i].val \notin Records(DictValues(_jobs_by_number'))

\* What a lookup returns is a record of the list of the last publish.
LookupsFromLastPublish ==
    (rd_pc # "returned" /\ rd_pc' = "returned")
        => Records(ret'.val[2]) \subseteq Records(published)

\* C20: the publish step replaces the two mappings by those of the list
\* of its pass: they hold only records fetched in that pass, a job of the
\* mappings before that the pass did not fetch is in neither, and
\* get_by_id, get_by_number and search return only records of that list.
C20_PublishReplaces == [][ReplacesSnapshot /\ LookupsFromLastPublish]_vars

\* a reader still has the job it got from the snapshot before; a refresh
\* has published since and the mapping has no job under that id
C20_Witness ==
    /\ rd_pc = "returned"
    /\ ret.op = "get_by_id"
    /\ ret.val[2] # <<>>
    /\ _last_refresh # 0
    /\ \E r \in Refreshers : outcome[r].how = "published"
    /\ DictGet(_jobs, ret.val[1]) = <<>>
====
